---- MODULE Spec2Model ----
(***************************************************************************)
(* Model of NLP/trial.py: the Hindi predictive-typing page.                *)
(*                                                                         *)
(* A text is a sequence of characters.  A character is a string: itself    *)
(* when it is ASCII, and its code point otherwise, so "u0915"              *)
(* is DEVANAGARI LETTER KA, "u0964" is DEVANAGARI DANDA and "u0967" is     *)
(* DEVANAGARI DIGIT ONE.                                                   *)
(***************************************************************************)
EXTENDS Integers, Sequences, FiniteSets, TLC

VARIABLES
    user_text,            \* st.session_state.user_text
    suggestion_history,   \* st.session_state.suggestion_history
    generator,            \* TRUE when load_hindi_model() returned a pipeline
    suggestions,          \* the suggestions the latest script run displayed
    rerun,                \* st.rerun() was called; the next run is its rerun
    calls,                \* generator calls made by the current interaction
    runs,                 \* script runs made by the current interaction
    run,                  \* what lines 317-320 did in the latest script run
    click,                \* the latest click on a suggestion button
    sample,               \* what the generator did when it was last called
    token,                \* argument of clean_suggestion
    cleaned,              \* its return value
    pc

vars == <<user_text, suggestion_history, generator, suggestions, rerun, calls,
          runs, run, click, sample, token, cleaned, pc>>

----------------------------------------------------------------------------
(* Settings and literals of the program *)

N_SUGGESTIONS == 4
ExtraSamples == 2
WordsPerResult == 6
ContextWords == 6
MinLength == 2
NumReturnSequences == N_SUGGESTIONS + ExtraSamples

----------------------------------------------------------------------------
(* Characters *)

Danda == "u0964"
Whitespace == {" "}
LatinLower == {"a", "b", "c", "d", "e", "f", "g", "h", "x", "y"}
LatinUpper == {"A", "B"}
AsciiDigits == {"1", "2"}
\* the part of the block U+0900..U+097F the model uses: a letter, the danda
\* (a punctuation mark) and a digit
DevanagariBlock == {"u0915", Danda, "u0967"}
Terminators == {Danda, ".", "!", "?"}

\* str.lower() on one character
LowerChar(c) == CASE c = "A" -> "a" [] c = "B" -> "b" [] OTHER -> c

\* str.lower()
lower(s) == [i \in 1..Len(s) |-> LowerChar(s[i])]

\* [\u0900-\u097Fa-zA-Z0-9]: what the leading alternative of the regex keeps
KeptAtStart == DevanagariBlock \cup LatinLower \cup LatinUpper \cup AsciiDigits

\* [\u0900-\u097Fa-zA-Z0-9\u0964]: what the trailing alternative keeps
KeptAtEnd == DevanagariBlock \cup LatinLower \cup LatinUpper \cup AsciiDigits \cup {Danda}

\* [\u0900-\u097Fa-zA-Z]: what re.search accepts as "a letter"
LetterClass == DevanagariBlock \cup LatinLower \cup LatinUpper

----------------------------------------------------------------------------
(* str methods *)

\* the first position from i on whose character is in S (when in) or is not
\* in S (when not in); Len(s) + 1 when there is none
RECURSIVE FirstFrom(_, _, _, _)
FirstFrom(s, S, in, i) ==
    IF i > Len(s) THEN i
    ELSE IF (s[i] \in S) = in THEN i
    ELSE FirstFrom(s, S, in, i + 1)

\* the last position up to i whose character is in S (when in) or is not in
\* S (when not in); 0 when there is none
RECURSIVE LastUpTo(_, _, _, _)
LastUpTo(s, S, in, i) ==
    IF i < 1 THEN 0
    ELSE IF (s[i] \in S) = in THEN i
    ELSE LastUpTo(s, S, in, i - 1)

\* str.strip()
strip(s) == SubSeq(s, FirstFrom(s, Whitespace, FALSE, 1), LastUpTo(s, Whitespace, FALSE, Len(s)))

\* str.split() from position i on: the maximal runs of non-whitespace
\* characters, in order
RECURSIVE SplitFrom(_, _)
SplitFrom(s, i) ==
    IF i > Len(s) THEN <<>>
    ELSE IF s[i] \in Whitespace THEN SplitFrom(s, i + 1)
    ELSE <<SubSeq(s, i, FirstFrom(s, Whitespace, TRUE, i) - 1)>>
         \o SplitFrom(s, FirstFrom(s, Whitespace, TRUE, i))

\* str.split()
split(s) == SplitFrom(s, 1)

\* " ".join(words)
RECURSIVE join(_)
join(words) ==
    IF words = <<>> THEN <<>>
    ELSE IF Len(words) = 1 THEN words[1]
    ELSE words[1] \o <<" ">> \o join(Tail(words))

\* s.endswith(c) for a one-character c
endswith(s, c) == s # <<>> /\ s[Len(s)] = c

\* sub in s
contains(s, sub) ==
    \E i \in 0..(Len(s) - Len(sub)) : SubSeq(s, i + 1, i + Len(sub)) = sub

\* xs[:n]
Take(xs, n) == SubSeq(xs, 1, IF Len(xs) < n THEN Len(xs) ELSE n)

\* xs[-n:]
TakeLast(xs, n) == SubSeq(xs, IF Len(xs) < n THEN 1 ELSE Len(xs) - n + 1, Len(xs))

----------------------------------------------------------------------------
(* clean_suggestion *)

\* re.sub(r'^[^...]+|[^...]+$', '', s): the leading run of characters the
\* first class rejects and the trailing run the second class rejects are cut
StripPunctuation(s) ==
    SubSeq(s, FirstFrom(s, KeptAtStart, TRUE, 1), LastUpTo(s, KeptAtEnd, TRUE, Len(s)))

\* lines 169-177 on the stripped text
Validated(c) ==
    IF FirstFrom(c, LetterClass, TRUE, 1) > Len(c) THEN <<>>
    ELSE IF Len(c) < MinLength THEN <<>>
    ELSE c

clean_suggestion(text) ==
    IF text = <<>> THEN <<>> ELSE Validated(StripPunctuation(strip(text)))

----------------------------------------------------------------------------
(* Specification of clean_suggestion alone: every short token is an input *)

MaxTokenLen == 3
TokenChars == {"a", "A", "1", ",", " ", "u0915", Danda, "u0967"}
Tokens == UNION {[1..n -> TokenChars] : n \in 0..MaxTokenLen}

NoRun == [text |-> <<>>, invoked |-> FALSE, context |-> <<>>, failed |-> FALSE,
          errors |-> 0, raised |-> FALSE, afterFailure |-> FALSE]
NoSample == [fails |-> FALSE, tails |-> <<>>]
NoClick == [at |-> 0, b |-> <<>>, s |-> <<>>, handled |-> FALSE]

InitClean ==
    /\ token \in Tokens
    /\ cleaned = <<>>
    /\ pc = "input"
    /\ user_text = <<>>
    /\ suggestion_history = <<>>
    /\ generator = TRUE
    /\ suggestions = <<>>
    /\ rerun = FALSE
    /\ calls = 0
    /\ runs = 0
    /\ run = NoRun
    /\ click = NoClick
    /\ sample = NoSample

Clean ==
    /\ pc = "input"
    /\ cleaned' = clean_suggestion(token)
    /\ pc' = "done"
    /\ UNCHANGED <<user_text, suggestion_history, generator, suggestions, rerun,
                   calls, runs, run, click, sample, token>>

SpecClean == InitClean /\ [][Clean]_vars

\* a letter: a Latin or Devanagari alphabetic character
IsLetter(c) == c \in LatinLower \cup LatinUpper \cup {"u0915"}

\* C3: every non-empty result of clean_suggestion has length >= 2 and holds
\* at least one letter (Latin or Devanagari, no digit, no punctuation mark),
\* so a token made of digits and punctuation only is discarded.
C3_CleanedHasLetter ==
    (pc = "done" /\ cleaned # <<>>) =>
        /\ Len(cleaned) >= 2
        /\ \E i \in 1..Len(cleaned) : IsLetter(cleaned[i])

----------------------------------------------------------------------------
(* extract_suggestions *)

\* lines 195-196 for one cleaned word
Found(found, c) ==
    IF c # <<>> /\ ~\E i \in 1..Len(found) : found[i] = c
    THEN Append(found, c) ELSE found

\* the loop of lines 193-196 over the words still to visit
RECURSIVE ExtractLoop(_, _)
ExtractLoop(words, found) ==
    IF words = <<>> THEN found
    ELSE ExtractLoop(Tail(words), Found(found, clean_suggestion(Head(words))))

\* line 198 returning the whole list
ExtractCapOff(found) == found

\* suggestions[:N_SUGGESTIONS] of line 198
ExtractCap(found) == Take(found, N_SUGGESTIONS)

extract_suggestions(generated_text, original_text) ==
    LET new_part == strip(SubSeq(generated_text, Len(original_text) + 1,
                                 Len(generated_text)))
    IN  IF generated_text = <<>> \/ Len(generated_text) <= Len(original_text)
        THEN <<>>
        ELSE IF new_part = <<>> THEN <<>>
        ELSE ExtractCap(ExtractLoop(Take(split(new_part), WordsPerResult), <<>>))

----------------------------------------------------------------------------
(* generate_predictions *)

\* the context of lines 207-208, taking the first words instead of the last
ContextFromStart(text) ==
    LET words == split(strip(text))
    IN  IF Len(words) > ContextWords THEN join(Take(words, ContextWords))
        ELSE strip(text)

\* lines 207-208
Context(text) ==
    LET words == split(strip(text))
    IN  IF Len(words) > ContextWords THEN join(TakeLast(words, ContextWords))
        ELSE strip(text)

\* the pipeline is built with return_full_text=True: every result is the
\* prompt followed by the sampled tail
GeneratedTexts(context, tails) == [i \in 1..Len(tails) |-> context \o tails[i]]

\* lines 223-226
RECURSIVE AllSuggestions(_, _)
AllSuggestions(texts, context) ==
    IF texts = <<>> THEN <<>>
    ELSE extract_suggestions(Head(texts), context) \o AllSuggestions(Tail(texts), context)

\* the loop of lines 232-239 with the seen set holding the suggestions as
\* they are written, not lower-cased
RECURSIVE UniqueLoopCaseSensitive(_, _, _)
UniqueLoopCaseSensitive(all, text, unique) ==
    IF all = <<>> THEN unique
    ELSE LET s == Head(all)
         IN  UniqueLoopCaseSensitive(Tail(all), text,
                 IF /\ s # <<>>
                    /\ ~\E i \in 1..Len(unique) : unique[i] = s
                    /\ ~contains(text, s)
                    /\ Len(s) >= MinLength
                 THEN Append(unique, s) ELSE unique)

\* the loop of lines 232-239; seen is the lower-cased unique_suggestions
RECURSIVE UniqueLoop(_, _, _)
UniqueLoop(all, text, unique) ==
    IF all = <<>> THEN unique
    ELSE LET s == Head(all)
         IN  UniqueLoop(Tail(all), text,
                 IF /\ s # <<>>
                    /\ ~\E i \in 1..Len(unique) : lower(unique[i]) = lower(s)
                    /\ ~contains(text, s)
                    /\ Len(s) >= MinLength
                 THEN Append(unique, s) ELSE unique)

\* the except clause of lines 243-245, raising the error again
GenerationFailureRaised(text, context) ==
    [text |-> text, invoked |-> TRUE, context |-> context, failed |-> TRUE,
     errors |-> 1, raised |-> TRUE, result |-> <<>>]

\* the except clause of lines 243-245: one st.error, and return []
GenerationFailure(text, context) ==
    [text |-> text, invoked |-> TRUE, context |-> context, failed |-> TRUE,
     errors |-> 1, raised |-> FALSE, result |-> <<>>]

NotInvoked(text) ==
    [text |-> text, invoked |-> FALSE, context |-> <<>>, failed |-> FALSE,
     errors |-> 0, raised |-> FALSE, result |-> <<>>]

\* lines 222-241 on the texts the generator returned
Predicted(text, context, texts) ==
    [text |-> text, invoked |-> TRUE, context |-> context, failed |-> FALSE,
     errors |-> 0, raised |-> FALSE,
     result |-> Take(UniqueLoop(AllSuggestions(texts, context), text, <<>>),
                     N_SUGGESTIONS)]

\* lines 205-245 once the context is computed.  out is what the generator
\* does when called: it raises (out.fails), or it returns the prompt
\* followed by each of out.tails
Generated(text, context, out) ==
    IF out.fails THEN GenerationFailure(text, context)
    ELSE Predicted(text, context, GeneratedTexts(context, out.tails))

generate_predictions(text, gen, out) ==
    IF ~gen \/ text = <<>> THEN NotInvoked(text)
    ELSE Generated(text, Context(text), out)

\* should_predict with endswith applied to the text as typed
should_predict_unstripped(text) ==
    /\ text # <<>>
    /\ Len(strip(text)) >= 1
    /\ ~\E t \in Terminators : endswith(text, t)

should_predict(text) ==
    /\ text # <<>>
    /\ Len(strip(text)) >= 1
    /\ ~\E t \in Terminators : endswith(strip(text), t)

\* lines 317-320 of the script
Predict(text, gen, out) ==
    IF should_predict(text) /\ gen THEN generate_predictions(text, gen, out)
    ELSE NotInvoked(text)

\* the record of a script run; afterFailure tells that the generator raised
\* in the script run before it
RunOf(p) == [text |-> p.text, invoked |-> p.invoked, context |-> p.context,
             failed |-> p.failed, errors |-> p.errors, raised |-> p.raised,
             afterFailure |-> run.failed]

----------------------------------------------------------------------------
(* Specification of one prediction: the buffer and the six sampled tails   *)
(* are the inputs, and lines 317-320 run once on them                      *)

Sp == <<" ">>
W(a, b) == <<a, b>>
Line(words) == join(words)

PipeTexts ==
    { Line(<<W("a","b"), W("c","d"), W("e","f"), W("g","h")>>),
      W("A","b"),
      <<"x", " ", "y", " ">> }

PipeTails ==
    { <<>>,
      Sp \o Line(<<W("A","b"), W("a","b"), W("c","d")>>),
      Sp \o Line(<<W("a","b"), W("c","d"), W("e","f"), W("g","h"),
                   W("x","y"), W("b","a"), W("y","x")>>),
      Sp \o Line(<<<<"A","B",",">>, W("1","2"), <<"a","b",".">>,
                   W("u0915","u0915"), <<"a">>>>) }

InitPipe ==
    /\ user_text \in PipeTexts
    /\ sample = NoSample
    /\ pc = "input"
    /\ suggestion_history = <<>>
    /\ generator = TRUE
    /\ suggestions = <<>>
    /\ rerun = FALSE
    /\ calls = 0
    /\ runs = 0
    /\ run = NoRun
    /\ click = NoClick
    /\ token = <<>>
    /\ cleaned = <<>>

PipeOutcomes == [fails : {FALSE}, tails : [1..NumReturnSequences -> PipeTails]]

\* lines 317-320, the generator doing out when it is called
PredictOnce(out) ==
    /\ pc = "input"
    /\ \E p \in {Predict(user_text, generator, out)} :
           /\ run' = RunOf(p)
           /\ suggestions' = p.result
           /\ calls' = IF p.invoked THEN calls + 1 ELSE calls
           /\ sample' = IF p.invoked THEN out ELSE NoSample
    /\ runs' = runs + 1
    /\ pc' = "done"
    /\ UNCHANGED <<user_text, suggestion_history, generator, rerun, click,
                   token, cleaned>>

NextPipe == \E out \in PipeOutcomes : PredictOnce(out)

SpecPipe == InitPipe /\ [][NextPipe]_vars

\* C1: predict returns at most 4 suggestions, and no two of them are equal
\* when compared case-insensitively.
C1_AtMostFourDistinct ==
    /\ Len(suggestions) <= 4
    /\ \A i, j \in 1..Len(suggestions) :
           lower(suggestions[i]) = lower(suggestions[j]) => i = j

\* a prediction that returned the full 4 suggestions although the model
\* offered the same word in two spellings
C1_Witness ==
    /\ pc = "done"
    /\ Len(suggestions) = 4
    /\ \E i \in 1..NumReturnSequences :
           /\ contains(sample.tails[i], W("A","B"))
           /\ contains(sample.tails[i], W("a","b"))
    /\ \E i \in 1..Len(suggestions) : lower(suggestions[i]) = W("a","b")

----------------------------------------------------------------------------
(* C10: the result of predict, stated over positions instead of loops *)

\* the elements of xs at the positions in K, in order
RECURSIVE PickFrom(_, _, _)
PickFrom(xs, K, i) ==
    IF i > Len(xs) THEN <<>>
    ELSE (IF i \in K THEN <<xs[i]>> ELSE <<>>) \o PickFrom(xs, K, i + 1)

Pick(xs, K) == PickFrom(xs, K, 1)

RECURSIVE Flatten(_)
Flatten(lists) == IF lists = <<>> THEN <<>> ELSE Head(lists) \o Flatten(Tail(lists))

\* the first (at most) 6 whitespace tokens of the tail after the context
\* prefix, each cleaned
CleanedTailTokens(generated_text, context) ==
    LET tokens == Take(split(SubSeq(generated_text, Len(context) + 1,
                                    Len(generated_text))), 6)
    IN  [i \in 1..Len(tokens) |-> clean_suggestion(tokens[i])]

\* the algorithm as the specification words it
SpecifiedCandidates(text, texts, context) ==
    LET per == [k \in 1..Len(texts) |->
                    LET c == CleanedTailTokens(texts[k], context)
                    IN  Pick(c, {i \in 1..Len(c) : c[i] # <<>>})]
        all == Flatten(per)
    IN  Pick(all, {i \in 1..Len(all) :
                      \A j \in 1..(i - 1) : lower(all[j]) # lower(all[i])})

SpecifiedPredict(text, texts, context) ==
    LET c == SpecifiedCandidates(text, texts, context)
    IN  Take(Pick(c, {i \in 1..Len(c) : ~contains(text, c[i]) /\ Len(c[i]) >= 2}), 4)

\* the algorithm as amended: exact repeats are dropped and at most 4 tokens
\* kept within each continuation; a token is kept at the end when it is no
\* substring of the buffer and every earlier candidate equal to it
\* case-insensitively is one
AmendedCandidates(text, texts, context) ==
    Flatten([k \in 1..Len(texts) |->
                LET c == CleanedTailTokens(texts[k], context)
                IN  Take(Pick(c, {i \in 1..Len(c) :
                                     /\ c[i] # <<>>
                                     /\ \A j \in 1..(i - 1) : c[j] # c[i]}), 4)])

AmendedPredict(text, texts, context) ==
    LET c == AmendedCandidates(text, texts, context)
    IN  Take(Pick(c, {i \in 1..Len(c) :
                         /\ ~contains(text, c[i])
                         /\ Len(c[i]) >= 2
                         /\ \A j \in 1..(i - 1) :
                                lower(c[j]) = lower(c[i]) => contains(text, c[j])}), 4)

\* C10 as claimed: predict returns exactly the result of the specified
\* algorithm; no candidate is dropped other than by its filters.
C10_AsSpecified ==
    (pc = "done" /\ run.invoked /\ ~run.failed) =>
        suggestions = SpecifiedPredict(user_text,
                          GeneratedTexts(run.context, sample.tails), run.context)

\* C10 amended: predict returns exactly the result of the algorithm with the
\* per-continuation exact de-duplication and cut at 4, and with the
\* case-insensitive de-duplication applied to the kept tokens only.
C10_AsAmended ==
    (pc = "done" /\ run.invoked /\ ~run.failed) =>
        suggestions = AmendedPredict(user_text,
                          GeneratedTexts(run.context, sample.tails), run.context)

\* a prediction over a continuation of more than 6 tokens that returned
\* suggestions, and not those of the algorithm as specified
C10_Witness ==
    /\ pc = "done"
    /\ run.invoked
    /\ \E k \in 1..NumReturnSequences :
           Len(split(sample.tails[k])) > WordsPerResult
    /\ suggestions # SpecifiedPredict(user_text,
                          GeneratedTexts(run.context, sample.tails), run.context)
    /\ suggestions # <<>>

----------------------------------------------------------------------------
(* Specification of the context window: buffers of up to MaxWords words *)

MaxWords == 7
RECURSIVE Spread(_, _)
Spread(words, gap) ==
    IF words = <<>> THEN <<>>
    ELSE IF Len(words) = 1 THEN words[1]
    ELSE words[1] \o gap \o Spread(Tail(words), gap)

ContextTexts ==
    { lead \o Spread(ws, gap) \o trail :
        lead \in {<<>>, Sp}, trail \in {<<>>, Sp}, gap \in {Sp, Sp \o Sp},
        ws \in UNION {[1..n -> {<<"a">>, <<"b">>}] : n \in 0..MaxWords} }

InitContext ==
    /\ user_text \in ContextTexts
    /\ sample = NoSample
    /\ pc = "input"
    /\ suggestion_history = <<>>
    /\ generator = TRUE
    /\ suggestions = <<>>
    /\ rerun = FALSE
    /\ calls = 0
    /\ runs = 0
    /\ run = NoRun
    /\ click = NoClick
    /\ token = <<>>
    /\ cleaned = <<>>

ContextOutcome == [fails |-> FALSE, tails |-> [i \in 1..NumReturnSequences |-> Sp \o W("c","d")]]

NextContext == PredictOnce(ContextOutcome)

SpecContext == InitContext /\ [][NextContext]_vars

\* C5: whenever the model is invoked, its context is the last 6 whitespace
\* tokens of the buffer joined by single spaces when the buffer has more than
\* 6 tokens, and the whole trimmed buffer otherwise; it never has more than 6
\* tokens.
C5_ContextWindow ==
    (pc = "done" /\ run.invoked) =>
        LET words == split(user_text)
            cw == split(run.context)
        IN  /\ Len(cw) <= 6
            /\ Len(words) <= 6 => run.context = strip(user_text)
            /\ Len(words) > 6 =>
                  /\ Len(cw) = 6
                  /\ \A k \in 1..6 : cw[k] = words[Len(words) - 6 + k]
                  /\ run.context = join(cw)

\* the model was invoked on a buffer of more than 6 tokens with leading
\* whitespace and double gaps, and the window dropped a different first word
C5_Witness ==
    /\ pc = "done"
    /\ run.invoked
    /\ Len(split(user_text)) > 6
    /\ user_text[1] = " "
    /\ contains(user_text, Sp \o Sp)
    /\ split(user_text)[1] # split(run.context)[1]

----------------------------------------------------------------------------
(* The page: one action per script run.  A script run is started by the    *)
(* user (typing, or a click on a button) or by st.rerun().                 *)

MaxHistory == 2
MaxTextLen == 8

TypedTexts ==
    { <<>>, Sp, <<"a">>, <<" ", "a", " ", " ">>, <<"a", ".">>, <<"a", "!", " ">>,
      <<"a", "?">>, <<"a", Danda, " ">>, <<"b", " ", "c">> }

UITails == { <<>>, Sp \o <<"b", "b">>, Sp \o <<"c", "c">> \o Sp \o <<"b", "b">> }

\* the generator raises, or returns six equal continuations, or a first
\* one that differs from the other five
UIOutcomes ==
    {[fails |-> TRUE, tails |-> <<>>]} \cup
    {[fails |-> FALSE, tails |-> [i \in 1..NumReturnSequences |-> t]] : t \in UITails} \cup
    {[fails |-> FALSE,
      tails |-> [i \in 1..NumReturnSequences |->
                    IF i = 1 THEN Sp \o <<"b", "b">> ELSE Sp \o <<"c", "c">> \o Sp \o <<"b", "b">>]]}

\* lines 317-320 with the generator doing out when it is called, and what
\* the interaction counters record of them
Ran(p, out, calls0, runs0) ==
    /\ run' = RunOf(p)
    /\ suggestions' = p.result
    /\ calls' = calls0 + (IF p.invoked THEN 1 ELSE 0)
    /\ runs' = runs0 + 1
    /\ sample' = IF p.invoked THEN out ELSE NoSample

\* lines 346-353
AcceptedText(b, s) ==
    LET current_text == strip(b)
    IN  IF current_text = <<>> THEN s
        ELSE IF endswith(current_text, " ") THEN current_text \o s
        ELSE current_text \o <<" ">> \o s

\* line 357 assigning a new list instead of appending
HistoryReplaced(history, s) == <<s>>

\* line 357
HistoryAppended(history, s) == Append(history, s)

\* lines 385-388
WithoutLastWord(text) ==
    LET words == split(strip(text))
        rest == SubSeq(words, 1, Len(words) - 1)
    IN  join(rest) \o (IF rest # <<>> THEN <<" ">> ELSE <<>>)

Init ==
    /\ user_text = <<>>
    /\ suggestion_history = <<>>
    /\ generator \in BOOLEAN
    /\ suggestions = <<>>
    /\ rerun = FALSE
    /\ calls = 0
    /\ runs = 1
    /\ run = NoRun
    /\ click = NoClick
    /\ sample = NoSample
    /\ token = <<>>
    /\ cleaned = <<>>
    /\ pc = "load"

\* the user edits the text input: lines 275-286, then the rest of the script
Type(t) ==
    /\ ~rerun
    /\ t # user_text
    /\ user_text' = t
    /\ \E out \in UIOutcomes : \E p \in {Predict(t, generator, out)} : Ran(p, out, 0, 0)
    /\ click' = NoClick
    /\ rerun' = FALSE
    /\ pc' = "type"
    /\ UNCHANGED <<suggestion_history, generator, token, cleaned>>

\* the user clicks the i-th suggestion button.  The script run the click
\* starts predicts again; st.button returns True when the button it draws
\* has the key of the clicked one: same index, same suggestion, same text.
ClickSuggestion(i) ==
    /\ ~rerun
    /\ i \in 1..Len(suggestions)
    /\ Len(suggestion_history) < MaxHistory
    /\ Len(user_text) + 1 + Len(suggestions[i]) <= MaxTextLen
    /\ \E out \in UIOutcomes : \E p \in {Predict(user_text, generator, out)} :
        LET s == suggestions[i]
            handled == i <= Len(p.result) /\ p.result[i] = s
        IN  /\ Ran(p, out, 0, 0)
            /\ click' = [at |-> i, b |-> user_text, s |-> s, handled |-> handled]
            /\ IF handled
               THEN /\ user_text' = AcceptedText(user_text, s)
                    /\ suggestion_history' = HistoryAppended(suggestion_history, s)
                    /\ rerun' = TRUE
               ELSE /\ UNCHANGED <<user_text, suggestion_history>>
                    /\ rerun' = FALSE
    /\ pc' = "click"
    /\ UNCHANGED <<generator, token, cleaned>>

\* lines 372-375
Clear ==
    /\ ~rerun
    /\ \E out \in UIOutcomes : \E p \in {Predict(user_text, generator, out)} : Ran(p, out, 0, 0)
    /\ user_text' = <<>>
    /\ suggestion_history' = <<>>
    /\ rerun' = TRUE
    /\ click' = NoClick
    /\ pc' = "clear"
    /\ UNCHANGED <<generator, token, cleaned>>

\* lines 378-381
FullStop ==
    /\ ~rerun
    /\ Len(user_text) + 2 <= MaxTextLen
    /\ \E out \in UIOutcomes : \E p \in {Predict(user_text, generator, out)} : Ran(p, out, 0, 0)
    /\ IF user_text # <<>> /\ ~endswith(user_text, Danda)
       THEN /\ user_text' = user_text \o <<Danda, " ">>
            /\ rerun' = TRUE
       ELSE /\ UNCHANGED user_text
            /\ rerun' = FALSE
    /\ click' = NoClick
    /\ pc' = "stop"
    /\ UNCHANGED <<suggestion_history, generator, token, cleaned>>

\* lines 384-389
UndoLastWord ==
    /\ ~rerun
    /\ \E out \in UIOutcomes : \E p \in {Predict(user_text, generator, out)} : Ran(p, out, 0, 0)
    /\ IF split(strip(user_text)) # <<>>
       THEN /\ user_text' = WithoutLastWord(user_text)
            /\ rerun' = TRUE
       ELSE /\ UNCHANGED user_text
            /\ rerun' = FALSE
    /\ click' = NoClick
    /\ pc' = "undo"
    /\ UNCHANGED <<suggestion_history, generator, token, cleaned>>

\* lines 392-393
Refresh ==
    /\ ~rerun
    /\ \E out \in UIOutcomes : \E p \in {Predict(user_text, generator, out)} : Ran(p, out, 0, 0)
    /\ rerun' = TRUE
    /\ click' = NoClick
    /\ pc' = "refresh"
    /\ UNCHANGED <<user_text, suggestion_history, generator, token, cleaned>>

\* the script run st.rerun() starts: no widget is triggered in it
Rerun ==
    /\ rerun
    /\ \E out \in UIOutcomes : \E p \in {Predict(user_text, generator, out)} : Ran(p, out, calls, runs)
    /\ rerun' = FALSE
    /\ pc' = "rerun"
    /\ UNCHANGED <<user_text, suggestion_history, generator, click, token, cleaned>>

Next ==
    \/ \E t \in TypedTexts : Type(t)
    \/ \E i \in 1..N_SUGGESTIONS : ClickSuggestion(i)
    \/ Clear
    \/ FullStop
    \/ UndoLastWord
    \/ Refresh
    \/ Rerun

Spec == Init /\ [][Next]_vars

----------------------------------------------------------------------------
(* Claims about the page *)

\* b with its trailing whitespace trimmed
TrimTrailing(b) == SubSeq(b, 1, LastUpTo(b, Whitespace, FALSE, Len(b)))

\* b is empty or whitespace-only, or ends with a terminator after trimming
NoPredictCondition(b) ==
    \/ TrimTrailing(b) = <<>>
    \/ TrimTrailing(b)[Len(TrimTrailing(b))] \in Terminators

\* C2: on a buffer that is empty, whitespace-only or that ends with a
\* terminator after trimming trailing whitespace, the prediction of a script
\* run shows no suggestion and does not invoke the generator.
C2_NoPredictNoCall ==
    NoPredictCondition(run.text) => (~run.invoked /\ suggestions = <<>>)

\* a loaded generator was not invoked on a typed buffer that ends with a
\* terminator followed by whitespace
C2_Witness ==
    /\ generator
    /\ pc = "type"
    /\ Len(run.text) >= 3
    /\ run.text[Len(run.text)] = " "
    /\ run.text[Len(run.text) - 1] \in Terminators
    /\ ~run.invoked

\* the new buffer as the acceptance protocol states it
ClaimedAccept(b, s) ==
    IF strip(b) = <<>> THEN s
    ELSE IF b[Len(b)] \in Whitespace THEN b \o s
    ELSE strip(b) \o <<" ">> \o s

\* C4: when a suggestion s is accepted against buffer b, the new buffer is
\* s if b trimmed is empty, b + s if b ends with whitespace (b unchanged,
\* leading and trailing whitespace kept), and b.trim() + " " + s otherwise.
C4_AcceptAsClaimed ==
    click.handled => user_text = ClaimedAccept(click.b, click.s)

\* C6: when the generator raises, the prediction shows no suggestion, reports
\* the failure exactly once and does not raise it to the script; and the
\* script run after a failed one invokes the generator again whenever the
\* buffer is one to predict on.
C6_FailureContained ==
    /\ run.failed => (suggestions = <<>> /\ run.errors = 1 /\ ~run.raised)
    /\ ~run.failed => run.errors = 0
    /\ (run.afterFailure /\ should_predict(run.text)) => run.invoked

\* the script run after a failed generation invoked the generator and showed
\* suggestions
C6_Witness ==
    /\ run.afterFailure
    /\ run.invoked
    /\ ~run.failed
    /\ suggestions # <<>>

IsPrefix(xs, ys) == Len(xs) <= Len(ys) /\ SubSeq(ys, 1, Len(xs)) = xs

\* C7 as claimed: across every user action the history before the action is
\* a prefix of the history after it.
C7_AppendOnly == [][IsPrefix(suggestion_history, suggestion_history')]_vars

\* C7 amended: clear empties the history; a click whose handler runs appends
\* exactly the clicked suggestion; every other script run leaves the history
\* as it is.
C7_AppendOnlyUntilClear ==
    [][IF pc' = "clear" THEN suggestion_history' = <<>>
       ELSE IF pc' = "click" /\ click'.handled
            THEN suggestion_history' = Append(suggestion_history, click'.s)
            ELSE suggestion_history' = suggestion_history]_vars

\* a second suggestion was accepted and is the last entry of the history
C7_Witness ==
    /\ click.handled
    /\ Len(suggestion_history) >= 2
    /\ suggestion_history[Len(suggestion_history)] = click.s

\* C8: one user interaction makes at most one generator call, counting every
\* script run it causes.
C8_AtMostOneCall == calls <= 1

\* C9: a click on a displayed suggestion is handled whatever the generator
\* returns in the script run of the click: the suggestion ends the buffer
\* and the history, and a rerun follows.
C9_ClickNeverLost ==
    click.at # 0 =>
        /\ click.handled
        /\ suggestion_history # <<>>
        /\ suggestion_history[Len(suggestion_history)] = click.s
        /\ Len(user_text) >= Len(click.s)
        /\ SubSeq(user_text, Len(user_text) - Len(click.s) + 1, Len(user_text)) = click.s
        /\ (rerun \/ pc = "rerun")

====
